---------------------------- MODULE Spec2Model ----------------------------
(***************************************************************************)
(* A model of the iterator exercises of rust-demo-iterators: the custom    *)
(* adapters Map and Unique, the flattening adapter, the constructions      *)
(* from an iterator (array, List, MyCollection), the Counter cursors, the  *)
(* array cursors and fold.                                                 *)
(*                                                                         *)
(* Each exercise is an independent program (a #[test] function or a        *)
(* module), so each has its own specification over its own variables; the  *)
(* variables of the other exercises stay at Idle.                          *)
(***************************************************************************)
EXTENDS Integers, Sequences, FiniteSets, TLC

\* ------------------------------------------------------------------ bounds
\* Longest source vector, and the values 1..NumVals its elements are drawn from.
MaxLen == 4
NumVals == 3
\* Pulls the caller may still issue after a cursor has reported exhaustion.
ExtraPulls == 2

Vals == 1..NumVals

\* All sequences over S of length 0..n.
SeqsUpTo(S, n) == UNION {[1..k -> S] : k \in 0..n}

Idle == "idle"

\* --------------------------------------------------------------- variables
\* iterator_adapter_Unique
VARIABLES
    uVs,       \* the source vector `vs`
    unique,    \* the adapter: [orig, seen]
    uResult,   \* the elements next() has returned so far, in pull order
    uLast,     \* what the last next() returned
    uInner,    \* calls of orig.next() made by the last next()
    uExtra     \* pulls issued after the first None

uvars == <<uVs, unique, uResult, uLast, uInner, uExtra>>

\* iterator_adapter_Map
VARIABLES
    mVs,       \* the source vector `vs`
    map,       \* the adapter: [orig, f]
    mResult,   \* the elements next() has returned so far, in pull order
    mLast,     \* what the last next() returned
    mExtra     \* pulls issued after the first None

mvars == <<mVs, map, mResult, mLast, mExtra>>

\* iterator_adapter_Flatten
VARIABLES
    fVs,       \* the nested source vector `vs`
    flatten,   \* the adapter: [orig, cur]
    fResult,   \* the elements next() has returned so far, in pull order
    fLast,     \* what the last next() returned
    fExtra     \* pulls issued after the first None

fvars == <<fVs, flatten, fResult, fLast, fExtra>>

\* from_iter_exercise: the array
VARIABLES
    aSrc,      \* the source vector `src`
    aN,        \* the length N of the array type [i32; N]
    aIter,     \* the cursor src.iter().map(..)
    aVec,      \* the Vec that collect builds
    aRes,      \* the Result of try_into
    aList,     \* the binding `list`
    aPc        \* "collect", "try_into", "unwrap", "done", "panicked"

avars == <<aSrc, aN, aIter, aVec, aRes, aList, aPc>>

\* from_iter_exercise: the List
VARIABLES
    lSrc,      \* the source vector `src`
    lRev,      \* whether the chain ends in .rev()
    lIter,     \* the cursor handed to from_iter
    lPulled,   \* the elements from_iter has pulled, in pull order
    lAcc,      \* fold's accumulator
    lList,     \* the binding `list`
    lPc        \* "fold", "done"

lvars == <<lSrc, lRev, lIter, lPulled, lAcc, lList, lPc>>

\* from_iter_demo
VARIABLES
    cSrc,           \* the range the test starts from: [start, end]
    cVia,           \* "from_iter" or "collect"
    cIter,          \* the Range cursor being drained
    my_collection,  \* the collection from_iter builds
    cPc             \* "call", "new", "loop", "done"

cvars == <<cSrc, cVia, cIter, my_collection, cPc>>

\* the Counter cursors
VARIABLES
    counter,   \* the cursor: [kind, max, count]
    kProfile,  \* overflow-checks of the build: "debug" (on), "release" (off)
    kLast,     \* what the last next() returned, or Panic
    kYielded   \* the elements next() has returned so far, in pull order

kvars == <<counter, kProfile, kLast, kYielded>>

\* iterator_using_into_iter, iterator_using_iter
VARIABLES
    ages,      \* the array (`ages`, `colors`)
    rOrig,     \* its contents when the test began
    iterator,  \* the cursor: [via, data, front, back]
    rReturns   \* what each next() returned, in pull order

rvars == <<ages, rOrig, iterator, rReturns>>

\* consumers::folding
VARIABLES
    gSrc,      \* the source vector `src`
    gSeed,     \* the seed (0 in the test)
    gComb,     \* the combining function
    gIter,     \* the cursor being drained (the loop's, then fold's)
    sum,       \* the loop's accumulator variable
    gAccum,    \* fold's accumulator
    gPulled,   \* elements fold has pulled
    sum_with_fold,  \* fold's result
    gPc        \* "loop", "fold", "done"

gvars == <<gSrc, gSeed, gComb, gIter, sum, gAccum, gPulled, sum_with_fold, gPc>>

\* consumers::any_and_all
VARIABLES
    ySrc,        \* the source vector `src`
    yOp,         \* "any" or "all"
    yThreshold,  \* the number the predicate compares with
    yIter,       \* the cursor src.iter()
    yPulled,     \* the elements the consumer has pulled, in pull order
    yResult,     \* the boolean returned
    yPc          \* "run", "done"

yvars == <<ySrc, yOp, yThreshold, yIter, yPulled, yResult, yPc>>

\* consumers::finding
VARIABLES
    qSrc,             \* the source vector `src`
    qThreshold,       \* the number the predicate compares with
    qIter,            \* the cursor being drained (the loop's, then find's)
    found,            \* the loop's result variable
    qLoopPulled,      \* the items the loop has visited, in order
    found_with_find,  \* what find returned
    qPulled,          \* the elements find has pulled, in pull order
    qPc               \* "loop", "find", "done"

qvars == <<qSrc, qThreshold, qIter, found, qLoopPulled, found_with_find, qPulled, qPc>>

\* two runs of the chain fmap(f).unique() over one source
VARIABLES
    dVs,    \* the source vector both runs iterate
    dKind,  \* the closure both runs pass to fmap
    dRuns   \* per run, the adapter chain and the log of what next() returned

dvars == <<dVs, dKind, dRuns>>

\* the password generators
VARIABLES
    generator,  \* the PasswordGenerator or its IntoIterX
    pProfile,   \* whether the build checks arithmetic overflow
    password,   \* the String next() is filling
    pLast,      \* what the last finished next() returned
    pPc         \* where the caller is

pvars == <<generator, pProfile, password, pLast, pPc>>

\* the two Counters iterated side by side
VARIABLES
    eIterator,         \* the Iterator_for_Counter Counter
    eIntoIter,         \* the IntoIterator_for_Counter IntoIterX
    eProfile,          \* whether the build checks arithmetic overflow
    eIteratorYielded,  \* the values the first loop received
    eIntoIterYielded,  \* the values the second loop received
    eIteratorLast,     \* what the first cursor returned last
    eIntoIterLast      \* what the second cursor returned last

evars == <<eIterator, eIntoIter, eProfile, eIteratorYielded, eIntoIterYielded, eIteratorLast, eIntoIterLast>>

\* valid_moves_for_worm
VARIABLES
    wMap,            \* the map
    worm,            \* the worm, its position
    occupied_cells,  \* the cells taken by other worms
    wProfile,        \* whether the build checks arithmetic overflow
    valid_moves,     \* the Vec being filled
    wDir,            \* the index into Direction ALL of the next iteration
    wRet,            \* what the call gave its caller
    wPc              \* where the call is

wvars == <<wMap, worm, occupied_cells, wProfile, valid_moves, wDir, wRet, wPc>>

vars == <<uvars, mvars, fvars, avars, lvars, cvars, kvars, rvars, gvars, yvars, qvars, dvars, pvars, evars, wvars>>

\* The variables of the other exercises, which an exercise leaves alone.
NotUnique ==
    <<mvars, fvars, avars, lvars, cvars, kvars, rvars, gvars, yvars, qvars, dvars, pvars, evars, wvars>>
NotMap ==
    <<uvars, fvars, avars, lvars, cvars, kvars, rvars, gvars, yvars, qvars, dvars, pvars, evars, wvars>>
NotFlatten ==
    <<uvars, mvars, avars, lvars, cvars, kvars, rvars, gvars, yvars, qvars, dvars, pvars, evars, wvars>>
NotArray ==
    <<uvars, mvars, fvars, lvars, cvars, kvars, rvars, gvars, yvars, qvars, dvars, pvars, evars, wvars>>
NotList ==
    <<uvars, mvars, fvars, avars, cvars, kvars, rvars, gvars, yvars, qvars, dvars, pvars, evars, wvars>>
NotCollection ==
    <<uvars, mvars, fvars, avars, lvars, kvars, rvars, gvars, yvars, qvars, dvars, pvars, evars, wvars>>
NotCounter ==
    <<uvars, mvars, fvars, avars, lvars, cvars, rvars, gvars, yvars, qvars, dvars, pvars, evars, wvars>>
NotCursor ==
    <<uvars, mvars, fvars, avars, lvars, cvars, kvars, gvars, yvars, qvars, dvars, pvars, evars, wvars>>
NotFold ==
    <<uvars, mvars, fvars, avars, lvars, cvars, kvars, rvars, yvars, qvars, dvars, pvars, evars, wvars>>
NotAnyAll ==
    <<uvars, mvars, fvars, avars, lvars, cvars, kvars, rvars, gvars, qvars, dvars, pvars, evars, wvars>>
NotFind ==
    <<uvars, mvars, fvars, avars, lvars, cvars, kvars, rvars, gvars, yvars, dvars, pvars, evars, wvars>>
NotRuns ==
    <<uvars, mvars, fvars, avars, lvars, cvars, kvars, rvars, gvars, yvars, qvars, pvars, evars, wvars>>
NotPassword ==
    <<uvars, mvars, fvars, avars, lvars, cvars, kvars, rvars, gvars, yvars, qvars, dvars, evars, wvars>>
NotPair ==
    <<uvars, mvars, fvars, avars, lvars, cvars, kvars, rvars, gvars, yvars, qvars, dvars, pvars, wvars>>
NotWorm ==
    <<uvars, mvars, fvars, avars, lvars, cvars, kvars, rvars, gvars, yvars, qvars, dvars, pvars, evars>>

\* ------------------------------------------------------------------ Option
None == [tag |-> "None"]
Some(v) == [tag |-> "Some", val |-> v]
IsSome(o) == o.tag = "Some"
\* Before the first pull there is no return value to look at.
NotPulled == [tag |-> "NotPulled"]

\* ------------------------------------------------- vec::IntoIter / slice::Iter
\* The cursor `vs.into_iter()` over a Vec: the buffer and the next position.
VecIntoIter(v) == [buf |-> v, pos |-> 1]

\* One call of next() on it: the item and the cursor afterwards.
VecNext(it) ==
    IF it.pos <= Len(it.buf)
    THEN [item |-> Some(it.buf[it.pos]), iter |-> [it EXCEPT !.pos = @ + 1]]
    ELSE [item |-> None, iter |-> it]

\* ====================================================================
\* iterator_adapter_Unique
\* ====================================================================

\* UniqueExt::unique
UniqueNew(iter) == [orig |-> iter, seen |-> {}]

\* A Unique::next that tests the seen-set but never inserts into it.
UniqueLoopNoInsert(self, n) ==
    LET r == VecNext(self.orig) IN
    [ret |-> r.item, self |-> [self EXCEPT !.orig = r.iter], inner |-> n + 1]

\* A Unique::next that empties the seen-set when the inner sequence ends.
RECURSIVE UniqueLoopClearsAtEnd(_, _)
UniqueLoopClearsAtEnd(self, n) ==
    LET r == VecNext(self.orig) IN
    IF IsSome(r.item)
    THEN IF r.item.val \notin self.seen
         THEN [ret |-> Some(r.item.val),
               self |-> [orig |-> r.iter, seen |-> self.seen \cup {r.item.val}],
               inner |-> n + 1]
         ELSE UniqueLoopClearsAtEnd([self EXCEPT !.orig = r.iter], n + 1)
    ELSE [ret |-> None, self |-> [orig |-> r.iter, seen |-> {}], inner |-> n + 1]

\* A Unique::next that gives up with None at the first duplicate.
UniqueLoopStopsAtDuplicate(self, n) ==
    LET r == VecNext(self.orig) IN
    IF IsSome(r.item) /\ r.item.val \notin self.seen
    THEN [ret |-> Some(r.item.val),
          self |-> [orig |-> r.iter, seen |-> self.seen \cup {r.item.val}],
          inner |-> n + 1]
    ELSE [ret |-> None, self |-> [self EXCEPT !.orig = r.iter], inner |-> n + 1]

\* Unique::next: the loop, from a state in which orig.next() was called n
\* times already. Returns the value, the adapter afterwards and the number
\* of calls of orig.next().
RECURSIVE UniqueLoop(_, _)
UniqueLoop(self, n) ==
    LET r == VecNext(self.orig) IN
    IF IsSome(r.item)
    THEN IF r.item.val \notin self.seen
         THEN [ret |-> Some(r.item.val),
               self |-> [orig |-> r.iter, seen |-> self.seen \cup {r.item.val}],
               inner |-> n + 1]
         ELSE UniqueLoop([self EXCEPT !.orig = r.iter], n + 1)
    ELSE [ret |-> None, self |-> [self EXCEPT !.orig = r.iter], inner |-> n + 1]

UniqueNext(self) == UniqueLoop(self, 0)

UniqueInit ==
    /\ uVs \in SeqsUpTo(Vals, MaxLen)
    /\ unique = UniqueNew(VecIntoIter(uVs))
    /\ uResult = <<>>
    /\ uLast = NotPulled
    /\ uInner = 0
    /\ uExtra = 0

\* The caller (collect, or a loop of next() calls) pulls once.
UniquePull ==
    /\ uLast = None => uExtra < ExtraPulls
    /\ LET r == UniqueNext(unique) IN
        /\ unique' = r.self
        /\ uLast' = r.ret
        /\ uInner' = r.inner
        /\ uResult' = IF IsSome(r.ret) THEN Append(uResult, r.ret.val) ELSE uResult
        /\ uExtra' = IF uLast = None THEN uExtra + 1 ELSE uExtra
    /\ UNCHANGED uVs
    /\ UNCHANGED NotUnique


\* ====================================================================
\* iterator_adapter_Map
\* ====================================================================

\* The closures handed to the adapter. A closure is its code (kind) and what
\* it captures: `c`, the counter of map_with_mutable_effects, and `calls`,
\* the arguments it has been invoked with so far.
FKinds == {"double", "count"}
Closure(kind) == [kind |-> kind, c |-> 0, calls |-> <<>>]

\* One invocation (self.f)(v): the result and the closure afterwards.
\*   "double": |x| x * 2
\*   "count":  |letter| { c += 1; (letter, c) }
CallF(f, v) ==
    IF f.kind = "double"
    THEN [ret |-> v * 2, f |-> [f EXCEPT !.calls = Append(@, v)]]
    ELSE [ret |-> <<v, f.c + 1>>,
          f |-> [f EXCEPT !.c = @ + 1, !.calls = Append(@, v)]]

\* MapExt::fmap
MapNew(iter, f) == [orig |-> iter, f |-> f]

\* A Map::next that hands the inner element on without transforming it.
MapNextNoApply(self) ==
    LET r == VecNext(self.orig) IN
    [ret |-> r.item, self |-> [self EXCEPT !.orig = r.iter]]

\* A Map::next that evaluates the transformation twice per element.
MapNextCallsTwice(self) ==
    LET r == VecNext(self.orig) IN
    IF IsSome(r.item)
    THEN LET a == CallF(self.f, r.item.val)
             b == CallF(a.f, r.item.val)
         IN [ret |-> Some(a.ret), self |-> [orig |-> r.iter, f |-> b.f]]
    ELSE [ret |-> None, self |-> [self EXCEPT !.orig = r.iter]]

\* Map::next
MapNext(self) ==
    LET r == VecNext(self.orig) IN
    IF IsSome(r.item)
    THEN LET a == CallF(self.f, r.item.val)
         IN [ret |-> Some(a.ret), self |-> [orig |-> r.iter, f |-> a.f]]
    ELSE [ret |-> None, self |-> [self EXCEPT !.orig = r.iter]]

MapInit ==
    /\ mVs \in SeqsUpTo(Vals, MaxLen)
    /\ \E kind \in FKinds : map = MapNew(VecIntoIter(mVs), Closure(kind))
    /\ mResult = <<>>
    /\ mLast = NotPulled
    /\ mExtra = 0

\* The caller (collect, for_each, or a loop of next() calls) pulls once.
MapPull ==
    /\ mLast = None => mExtra < ExtraPulls
    /\ LET r == MapNext(map) IN
        /\ map' = r.self
        /\ mLast' = r.ret
        /\ mResult' = IF IsSome(r.ret) THEN Append(mResult, r.ret.val) ELSE mResult
        /\ mExtra' = IF mLast = None THEN mExtra + 1 ELSE mExtra
    /\ UNCHANGED mVs
    /\ UNCHANGED NotMap

\* ====================================================================
\* iterator_adapter_Flatten
\* ====================================================================
\* Inner sequences per nested vector, and elements per inner sequence.
MaxOuter == 3
MaxInner == 2


\* The adapter over an outer cursor, with no current inner sequence yet.
FlattenNew(iter) == [orig |-> iter, cur |-> None]

\* A flattening pull that reports exhaustion as soon as the current inner
\* sequence is exhausted and the next one has no element.
RECURSIVE FlattenLoopStopsAtEmpty(_)
FlattenLoopStopsAtEmpty(self) ==
    LET i == IF IsSome(self.cur) THEN VecNext(self.cur.val)
             ELSE [item |-> None, iter |-> Idle]
    IN IF IsSome(i.item)
       THEN [ret |-> i.item, self |-> [self EXCEPT !.cur = Some(i.iter)]]
       ELSE LET o == VecNext(self.orig) IN
            IF IsSome(o.item)
            THEN IF o.item.val = <<>>
                 THEN [ret |-> None, self |-> [orig |-> o.iter, cur |-> None]]
                 ELSE FlattenLoopStopsAtEmpty(
                          [orig |-> o.iter, cur |-> Some(VecIntoIter(o.item.val))])
            ELSE [ret |-> None, self |-> [orig |-> o.iter, cur |-> None]]

\* The pull: if the current inner sequence has a next element, return it; if
\* it is exhausted (or there is none yet), pull the next inner sequence from
\* the outer one and retry; if the outer one is exhausted, report exhaustion.
RECURSIVE FlattenLoop(_)
FlattenLoop(self) ==
    LET i == IF IsSome(self.cur) THEN VecNext(self.cur.val)
             ELSE [item |-> None, iter |-> Idle]
    IN IF IsSome(i.item)
       THEN [ret |-> i.item, self |-> [self EXCEPT !.cur = Some(i.iter)]]
       ELSE LET o == VecNext(self.orig) IN
            IF IsSome(o.item)
            THEN FlattenLoop([orig |-> o.iter, cur |-> Some(VecIntoIter(o.item.val))])
            ELSE [ret |-> None, self |-> [orig |-> o.iter, cur |-> None]]

FlattenNext(self) == FlattenLoop(self)

FlattenInit ==
    /\ fVs \in SeqsUpTo(SeqsUpTo(1..2, MaxInner), MaxOuter)
    /\ flatten = FlattenNew(VecIntoIter(fVs))
    /\ fResult = <<>>
    /\ fLast = NotPulled
    /\ fExtra = 0

\* The caller (collect, or a loop of next() calls) pulls once.
FlattenPull ==
    /\ fLast = None => fExtra < ExtraPulls
    /\ LET r == FlattenNext(flatten) IN
        /\ flatten' = r.self
        /\ fLast' = r.ret
        /\ fResult' = IF IsSome(r.ret) THEN Append(fResult, r.ret.val) ELSE fResult
        /\ fExtra' = IF fLast = None THEN fExtra + 1 ELSE fExtra
    /\ UNCHANGED fVs
    /\ UNCHANGED NotFlatten


\* ====================================================================
\* slice::Iter, Map over it, Rev: the cursors of from_iter_exercise
\* ====================================================================
\* `src.iter()`: a double-ended cursor over the slice, front and back.
SliceIter(v) == [buf |-> v, front |-> 1, back |-> Len(v)]

SliceNext(it) ==
    IF it.front <= it.back
    THEN [item |-> Some(it.buf[it.front]), iter |-> [it EXCEPT !.front = @ + 1]]
    ELSE [item |-> None, iter |-> it]

SliceNextBack(it) ==
    IF it.front <= it.back
    THEN [item |-> Some(it.buf[it.back]), iter |-> [it EXCEPT !.back = @ - 1]]
    ELSE [item |-> None, iter |-> it]

\* |item: &i32| item * 2
Double(item) == item * 2

\* `src.iter().map(|item| item * 2)`, optionally `.rev()`: one next() of the
\* chain. Rev::next is the inner next_back; Map transforms what it gets.
ChainNext(it, rev) ==
    LET r == IF rev THEN SliceNextBack(it) ELSE SliceNext(it) IN
    IF IsSome(r.item)
    THEN [item |-> Some(Double(r.item.val)), iter |-> r.iter]
    ELSE [item |-> None, iter |-> r.iter]

\* ====================================================================
\* from_iter_exercise: collect into a Vec, then try_into a [i32; N]
\* ====================================================================
Ok(v) == [tag |-> "Ok", val |-> v]
Err(e) == [tag |-> "Err", err |-> e]
Unset == [tag |-> "Unset"]


\* A conversion that cuts a longer Vec down to the first n elements.
TryIntoTruncates(vec, n) ==
    IF Len(vec) >= n THEN Ok(SubSeq(vec, 1, n)) ELSE Err(vec)

\* Vec<T> -> [T; N]: the array when the lengths agree, else the Vec back.
TryInto(vec, n) ==
    IF Len(vec) = n THEN Ok(vec) ELSE Err(vec)

ArrayInit ==
    /\ aSrc \in SeqsUpTo(Vals, MaxLen)
    /\ aN \in 0..MaxLen
    /\ aIter = SliceIter(aSrc)
    /\ aVec = <<>>
    /\ aRes = Unset
    /\ aList = Unset
    /\ aPc = "collect"

\* collect::<Vec<_>>(): one turn of its loop.
ArrayCollectStep ==
    /\ aPc = "collect"
    /\ LET r == ChainNext(aIter, FALSE) IN
        /\ aIter' = r.iter
        /\ aVec' = IF IsSome(r.item) THEN Append(aVec, r.item.val) ELSE aVec
        /\ aPc' = IF IsSome(r.item) THEN "collect" ELSE "try_into"
    /\ UNCHANGED <<aSrc, aN, aRes, aList>>
    /\ UNCHANGED NotArray

\* .try_into()
ArrayTryInto ==
    /\ aPc = "try_into"
    /\ aRes' = TryInto(aVec, aN)
    /\ aPc' = "unwrap"
    /\ UNCHANGED <<aSrc, aN, aIter, aVec, aList>>
    /\ UNCHANGED NotArray

\* .unwrap(): the array, or a panic that carries the error to the caller.
ArrayUnwrap ==
    /\ aPc = "unwrap"
    /\ IF aRes.tag = "Ok"
       THEN aList' = aRes.val /\ aPc' = "done"
       ELSE aList' = aList /\ aPc' = "panicked"
    /\ UNCHANGED <<aSrc, aN, aIter, aVec, aRes>>
    /\ UNCHANGED NotArray

\* ====================================================================
\* from_iter_exercise: List::from_iter
\* ====================================================================
Nil == <<"Nil">>
Cons(n, tail) == <<"Cons", n, tail>>


\* A closure that links the new element behind the list built so far.
RECURSIVE ListFoldFnAppends(_, _)
ListFoldFnAppends(acc, n) ==
    IF acc = Nil THEN Cons(n, Nil)
    ELSE Cons(acc[2], ListFoldFnAppends(acc[3], n))

\* |acc, n| List::Cons(n, Box::new(acc))
ListFoldFn(acc, n) == Cons(n, acc)

ListInit ==
    /\ lSrc \in SeqsUpTo(Vals, MaxLen)
    /\ lRev \in BOOLEAN
    /\ lIter = SliceIter(lSrc)
    /\ lPulled = <<>>
    /\ lAcc = Nil
    /\ lList = Unset
    /\ lPc = "fold"

\* iter.into_iter().fold(List::Nil, ..): one turn of fold's loop; at
\* exhaustion the accumulator is the result.
ListFoldStep ==
    /\ lPc = "fold"
    /\ LET r == ChainNext(lIter, lRev) IN
        /\ lIter' = r.iter
        /\ IF IsSome(r.item)
           THEN /\ lAcc' = ListFoldFn(lAcc, r.item.val)
                /\ lPulled' = Append(lPulled, r.item.val)
                /\ UNCHANGED <<lList, lPc>>
           ELSE /\ lList' = lAcc
                /\ lPc' = "done"
                /\ UNCHANGED <<lAcc, lPulled>>
    /\ UNCHANGED <<lSrc, lRev>>
    /\ UNCHANGED NotList

\* ====================================================================
\* from_iter_demo: MyCollection::from_iter
\* ====================================================================
\* Ranges lo..hi are drawn with -1 <= lo, hi <= RangeHi.
RangeHi == 5


\* Range<i32>::next
RangeNext(r) ==
    IF r.start < r.end
    THEN [item |-> Some(r.start), iter |-> [r EXCEPT !.start = @ + 1]]
    ELSE [item |-> None, iter |-> r]

\* MyCollection::new
MyCollectionNew == <<>>

\* An add that puts the element in front.
MyCollectionAddFront(self, elem) == <<elem>> \o self

\* MyCollection::add
MyCollectionAdd(self, elem) == Append(self, elem)

CollectionInit ==
    /\ \E lo \in -1..RangeHi, hi \in -1..RangeHi :
          cSrc = [start |-> lo, end |-> hi]
    /\ cVia \in {"from_iter", "collect"}
    /\ cIter = cSrc
    /\ my_collection = Unset
    /\ cPc = "call"

\* MyCollection::from_iter(iter), or iter.collect::<MyCollection>(), which
\* is FromIterator::from_iter(iter).
CollectionCall ==
    /\ cPc = "call"
    /\ cPc' = "new"
    /\ UNCHANGED <<cSrc, cVia, cIter, my_collection>>
    /\ UNCHANGED NotCollection

\* let mut my_collection = MyCollection::new();
CollectionNew ==
    /\ cPc = "new"
    /\ my_collection' = MyCollectionNew
    /\ cPc' = "loop"
    /\ UNCHANGED <<cSrc, cVia, cIter>>
    /\ UNCHANGED NotCollection

\* for i in iter { my_collection.add(i); }: one turn, or the loop's end.
CollectionLoopStep ==
    /\ cPc = "loop"
    /\ LET r == RangeNext(cIter) IN
        /\ cIter' = r.iter
        /\ my_collection' = IF IsSome(r.item)
                            THEN MyCollectionAdd(my_collection, r.item.val)
                            ELSE my_collection
        /\ cPc' = IF IsSome(r.item) THEN "loop" ELSE "done"
    /\ UNCHANGED <<cSrc, cVia>>
    /\ UNCHANGED NotCollection


\* ====================================================================
\* Iterator_for_Counter, IntoIterator_for_Counter
\* ====================================================================
\* The width of the counters' integer type. The code's is i32; the model
\* keeps two's complement arithmetic at a width TLC can exhaust.
IntBits == 4
IntMin == -(2 ^ (IntBits - 1))
IntMax == 2 ^ (IntBits - 1) - 1
IntRange == IntMin..IntMax

\* a + b in two's complement at the width
WrappingAdd(a, b) == ((a + b - IntMin) % (2 ^ IntBits)) + IntMin

Panic == [tag |-> "Panic"]


\* Iterator_for_Counter::Counter::new
CounterNew(max) == [kind |-> "Iterator", max |-> max, count |-> -1]

\* IntoIterator_for_Counter::Counter::new(max).into_iter()
CounterIntoIter(max) == [kind |-> "IntoIterator", max |-> max, count |-> 0]

\* Counter::next and IntoIterX::next (the same body): `self.count += 1`
\* panics on overflow when the build checks it and wraps when it does not.
CounterNext(self, profile) ==
    IF self.count + 1 > IntMax /\ profile = "debug"
    THEN [ret |-> Panic, self |-> self]
    ELSE LET count == WrappingAdd(self.count, 1) IN
         [ret |-> IF count < self.max THEN Some(count) ELSE None,
          self |-> [self EXCEPT !.count = count]]

CounterInit ==
    /\ \E max \in IntRange : counter \in {CounterNew(max), CounterIntoIter(max)}
    /\ kProfile \in {"debug", "release"}
    /\ kLast = NotPulled
    /\ kYielded = <<>>

\* The caller pulls once. Nothing runs after a panic. The record of yielded
\* elements is kept to one lap of the counter.
CounterPull ==
    /\ kLast # Panic
    /\ Len(kYielded) < 2 ^ IntBits
    /\ LET r == CounterNext(counter, kProfile) IN
        /\ counter' = r.self
        /\ kLast' = r.ret
        /\ kYielded' = IF IsSome(r.ret) THEN Append(kYielded, r.ret.val) ELSE kYielded
    /\ UNCHANGED kProfile
    /\ UNCHANGED NotCounter

\* ====================================================================
\* iterator_using_into_iter, iterator_using_iter
\* ====================================================================

\* `ages.into_iter()`: array::IntoIter owns a copy of the array and the
\* range of the elements still alive.
ArrayIntoIter(arr) ==
    [via |-> "into_iter", data |-> arr, front |-> 1, back |-> Len(arr)]

\* `colors.iter()`: slice::Iter borrows the array and holds no data.
ArrayIter(arr) ==
    [via |-> "iter", data |-> <<>>, front |-> 1, back |-> Len(arr)]

\* A next() that advances before it reads.
ArrayNextSkips(it, arr) ==
    LET buf == IF it.via = "into_iter" THEN it.data ELSE arr IN
    IF it.front < it.back
    THEN [item |-> Some(buf[it.front + 1]), iter |-> [it EXCEPT !.front = @ + 1]]
    ELSE [item |-> None, iter |-> it]

\* iterator.next()
ArrayNext(it, arr) ==
    LET buf == IF it.via = "into_iter" THEN it.data ELSE arr IN
    IF it.front <= it.back
    THEN [item |-> Some(buf[it.front]), iter |-> [it EXCEPT !.front = @ + 1]]
    ELSE [item |-> None, iter |-> it]

CursorInit ==
    /\ ages \in SeqsUpTo(Vals, MaxLen)
    /\ rOrig = ages
    /\ iterator \in {ArrayIntoIter(ages), ArrayIter(ages)}
    /\ rReturns = <<>>

\* assert_eq!(iterator.next(), ..): one pull.
CursorPull ==
    /\ Len(rReturns) < Len(ages) + 1 + ExtraPulls
    /\ LET r == ArrayNext(iterator, ages) IN
        /\ iterator' = r.iter
        /\ rReturns' = Append(rReturns, r.item)
    /\ UNCHANGED <<ages, rOrig>>
    /\ UNCHANGED NotCursor

\* ====================================================================
\* consumers::folding
\* ====================================================================
\* Seeds are drawn from 0..MaxSeed.
MaxSeed == 1


\* The combining functions: the test's `acc + item`, and two for which the
\* order of the elements and of the arguments matters.
Combiners == {"add", "sub", "shift"}
Combine(c, acc, item) ==
    CASE c = "add" -> acc + item
      [] c = "sub" -> acc - item
      [] c = "shift" -> 2 * acc + item

\* A fold that hands the closure its arguments in the other order.
FoldApplySwapped(c, accum, x) == Combine(c, x, accum)

\* fold: accum = f(accum, x)
FoldApply(c, accum, x) == Combine(c, accum, x)

\* the loop: sum += item
LoopApply(c, acc, item) == Combine(c, acc, item)

FoldInit ==
    /\ gSrc \in SeqsUpTo(Vals, MaxLen)
    /\ gSeed \in 0..MaxSeed
    /\ gComb \in Combiners
    /\ gIter = SliceIter(gSrc)
    /\ sum = gSeed
    /\ gAccum = Unset
    /\ gPulled = 0
    /\ sum_with_fold = Unset
    /\ gPc = "loop"

\* for item in &src { sum += item }: one turn; at the end fold is called
\* on a fresh src.iter() with the seed.
FoldLoopStep ==
    /\ gPc = "loop"
    /\ LET r == SliceNext(gIter) IN
        IF IsSome(r.item)
        THEN /\ sum' = LoopApply(gComb, sum, r.item.val)
             /\ gIter' = r.iter
             /\ UNCHANGED <<gAccum, gPc>>
        ELSE /\ gIter' = SliceIter(gSrc)
             /\ gAccum' = gSeed
             /\ gPc' = "fold"
             /\ UNCHANGED sum
    /\ UNCHANGED <<gSrc, gSeed, gComb, gPulled, sum_with_fold>>
    /\ UNCHANGED NotFold

\* Iterator::fold: while let Some(x) = self.next() { accum = f(accum, x) }
FoldStep ==
    /\ gPc = "fold"
    /\ LET r == SliceNext(gIter) IN
        /\ gIter' = r.iter
        /\ IF IsSome(r.item)
           THEN /\ gAccum' = FoldApply(gComb, gAccum, r.item.val)
                /\ gPulled' = gPulled + 1
                /\ UNCHANGED <<sum_with_fold, gPc>>
           ELSE /\ sum_with_fold' = gAccum
                /\ gPc' = "done"
                /\ UNCHANGED <<gAccum, gPulled>>
    /\ UNCHANGED <<gSrc, gSeed, gComb, sum>>
    /\ UNCHANGED NotFold

\* ====================================================================
\* consumers::any_and_all
\* ====================================================================
\* |item: &i32| *item > 3, with the 3 drawn from 0..NumVals.
Pred(threshold, item) == item > threshold

\* A consumer that never returns before its cursor is exhausted.
StopsNever(op, px) == FALSE

\* Whether the consumer returns on an element for which the predicate gave
\* px: any returns true on the first hit, all returns false on the first miss.
Stops(op, px) == IF op = "any" THEN px ELSE ~px

AnyAllInit ==
    /\ ySrc \in SeqsUpTo(Vals, MaxLen)
    /\ yOp \in {"any", "all"}
    /\ yThreshold \in 0..NumVals
    /\ yIter = SliceIter(ySrc)
    /\ yPulled = <<>>
    /\ yResult = Unset
    /\ yPc = "run"

\* Iterator::any / Iterator::all: one turn of
\*   while let Some(x) = self.next() { if f(x) { return true; } } false
\* (all: if !f(x) { return false; } ... true).
AnyAllStep ==
    /\ yPc = "run"
    /\ LET r == SliceNext(yIter) IN
        /\ yIter' = r.iter
        /\ IF IsSome(r.item)
           THEN /\ yPulled' = Append(yPulled, r.item.val)
                /\ IF Stops(yOp, Pred(yThreshold, r.item.val))
                   THEN yResult' = (yOp = "any") /\ yPc' = "done"
                   ELSE UNCHANGED <<yResult, yPc>>
           ELSE /\ yResult' = (yOp = "all")
                /\ yPc' = "done"
                /\ UNCHANGED yPulled
    /\ UNCHANGED <<ySrc, yOp, yThreshold>>
    /\ UNCHANGED NotAnyAll

\* ====================================================================
\* consumers::finding
\* ====================================================================
\* A find that returns the first element the predicate rejects.
FindOnInverted(px, x) == IF ~px THEN Some(x) ELSE None

\* Iterator::find on an element x for which the predicate gave px: the
\* value it returns at once, or None to go on pulling.
FindOn(px, x) == IF px THEN Some(x) ELSE None

\* The loop on an item: if *item > 3 { found = Some(item); break; }
LoopOn(px, item) == IF px THEN Some(item) ELSE None

FindInit ==
    /\ qSrc \in SeqsUpTo(Vals, MaxLen)
    /\ qThreshold \in 0..NumVals
    /\ qIter = SliceIter(qSrc)
    /\ found = None
    /\ qLoopPulled = <<>>
    /\ found_with_find = Unset
    /\ qPulled = <<>>
    /\ qPc = "loop"

\* for item in &src { .. }: one turn; after the break or the last item,
\* find is called on a fresh src.iter().
FindLoopStep ==
    /\ qPc = "loop"
    /\ LET r == SliceNext(qIter) IN
        IF IsSome(r.item)
        THEN LET hit == LoopOn(Pred(qThreshold, r.item.val), r.item.val) IN
             /\ qLoopPulled' = Append(qLoopPulled, r.item.val)
             /\ IF IsSome(hit)
                THEN found' = hit /\ qIter' = SliceIter(qSrc) /\ qPc' = "find"
                ELSE found' = found /\ qIter' = r.iter /\ qPc' = qPc
        ELSE /\ qIter' = SliceIter(qSrc)
             /\ qPc' = "find"
             /\ UNCHANGED <<found, qLoopPulled>>
    /\ UNCHANGED <<qSrc, qThreshold, found_with_find, qPulled>>
    /\ UNCHANGED NotFind

\* Iterator::find: one turn of
\*   while let Some(x) = self.next() { if predicate(&x) { return Some(x); } } None
FindStep ==
    /\ qPc = "find"
    /\ LET r == SliceNext(qIter) IN
        /\ qIter' = r.iter
        /\ IF IsSome(r.item)
           THEN LET hit == FindOn(Pred(qThreshold, r.item.val), r.item.val) IN
                /\ qPulled' = Append(qPulled, r.item.val)
                /\ IF IsSome(hit)
                   THEN found_with_find' = hit /\ qPc' = "done"
                   ELSE UNCHANGED <<found_with_find, qPc>>
           ELSE /\ found_with_find' = None
                /\ qPc' = "done"
                /\ UNCHANGED qPulled
    /\ UNCHANGED <<qSrc, qThreshold, found, qLoopPulled>>
    /\ UNCHANGED NotFind

\* ====================================================================
\* Two runs of the chain vs.into_iter().fmap(f).unique()
\* ====================================================================
\* A HashSet keeps its elements in an order that depends on the hasher keys
\* drawn when the set is created, which differ from run to run. The model
\* keeps the set as the sequence of its elements in that internal order;
\* the keys "back" and "front" stand for two draws that order it oppositely.
HashKeys == {"back", "front"}

\* HashSet::new
SeenNew == <<>>

\* HashSet::insert
SeenInsert(seen, v, keys) ==
    IF keys = "back" THEN Append(seen, v) ELSE <<v>> \o seen

\* A membership test that looks at the first stored element only.
SeenContainsFirstOnly(seen, v) == seen # <<>> /\ seen[1] = v

\* HashSet::contains
SeenContains(seen, v) == \E i \in 1..Len(seen) : seen[i] = v

\* UniqueExt::unique over the mapping adapter, in a run with the given keys.
RunUniqueNew(vs, kind, keys) ==
    [orig |-> MapNew(VecIntoIter(vs), Closure(kind)), seen |-> SeenNew,
     keys |-> keys]

\* Unique::next with Map::next as self.orig.next().
RECURSIVE RunUniqueNext(_)
RunUniqueNext(self) ==
    LET r == MapNext(self.orig) IN
    IF IsSome(r.ret)
    THEN IF ~SeenContains(self.seen, r.ret.val)
         THEN [ret |-> Some(r.ret.val),
               self |-> [self EXCEPT !.orig = r.self,
                                     !.seen = SeenInsert(@, r.ret.val, self.keys)]]
         ELSE RunUniqueNext([self EXCEPT !.orig = r.self])
    ELSE [ret |-> None, self |-> [self EXCEPT !.orig = r.self]]

RunsInit ==
    /\ dVs \in SeqsUpTo(Vals, MaxLen)
    /\ dKind \in FKinds
    /\ \E k1 \in HashKeys, k2 \in HashKeys :
          dRuns = <<[unique |-> RunUniqueNew(dVs, dKind, k1), returns |-> <<>>],
                    [unique |-> RunUniqueNew(dVs, dKind, k2), returns |-> <<>>]>>

\* Run i pulls once; a run stops pulling at exhaustion, and the second run
\* replays the first, so it is never ahead of it.
RunPull(i) ==
    /\ IF dRuns[i].returns = <<>> THEN TRUE
       ELSE dRuns[i].returns[Len(dRuns[i].returns)] # None
    /\ i = 2 => Len(dRuns[2].returns) < Len(dRuns[1].returns)
    /\ LET r == RunUniqueNext(dRuns[i].unique) IN
        dRuns' = [dRuns EXCEPT ![i] = [unique |-> r.self,
                                       returns |-> Append(@.returns, r.ret)]]
    /\ UNCHANGED <<dVs, dKind>>
    /\ UNCHANGED NotRuns

RunFirst == RunPull(1)
RunSecond == RunPull(2)

\* ====================================================================
\* Iterator_for_PasswordGenerator / IntoIterator_for_PasswordGenerator
\* ====================================================================
\* Characters are kept as their byte values.
ByteA == 97
ByteZ == 122
U8Max == 2 ^ 8 - 1

MaxPwLen == 2

\* PasswordGenerator::new(length)
PasswordGeneratorNew(length) == [kind |-> "Iterator", length |-> length]

\* PasswordGenerator::new(length).into_iter()
PasswordGeneratorIntoIter(length) ==
    [kind |-> "IntoIterator", length |-> length]

\* A range of offsets that runs up to b'z' itself.
GenRangeUpToZ == 0..ByteZ

\* rand::thread_rng().gen_range(0..=b'z' - b'a'): what a draw can return.
GenRange == 0..(ByteZ - ByteA)

\* b'a' + offset in u8: panics on overflow when the build checks it and
\* wraps when it does not. The sum comes back as Some(byte).
AddU8(a, b, profile) ==
    IF a + b > U8Max /\ profile = "debug"
    THEN Panic
    ELSE Some((a + b) % (U8Max + 1))

PasswordInit ==
    /\ \E length \in 0..MaxPwLen :
          generator \in {PasswordGeneratorNew(length),
                         PasswordGeneratorIntoIter(length)}
    /\ pProfile \in {"debug", "release"}
    /\ password = <<>>
    /\ pLast = NotPulled
    /\ pPc = "idle"

\* next() is entered: `let mut password = String::new();`
PasswordCall ==
    /\ pPc \in {"idle", "returned"}
    /\ password' = <<>>
    /\ pLast' = NotPulled
    /\ pPc' = "loop"
    /\ UNCHANGED <<generator, pProfile>>
    /\ UNCHANGED NotPassword

\* One iteration of `for _ in 0..self.length`: draw an offset, push a char.
PasswordPush ==
    /\ pPc = "loop"
    /\ Len(password) < generator.length
    /\ \E offset \in GenRange :
          LET byte == AddU8(ByteA, offset, pProfile) IN
          IF IsSome(byte)
          THEN password' = Append(password, byte.val) /\ UNCHANGED <<pLast, pPc>>
          ELSE pLast' = Panic /\ pPc' = "panicked" /\ UNCHANGED password
    /\ UNCHANGED <<generator, pProfile>>
    /\ UNCHANGED NotPassword

\* The loop is over: `Some(password)`; the String moves to the caller.
PasswordReturn ==
    /\ pPc = "loop"
    /\ Len(password) = generator.length
    /\ pLast' = Some(password)
    /\ password' = <<>>
    /\ pPc' = "returned"
    /\ UNCHANGED <<generator, pProfile>>
    /\ UNCHANGED NotPassword

\* ====================================================================
\* The two Counters side by side
\* ====================================================================
\* `for i in counter` over each implementation, built from the same max:
\* the loop calls next() until it returns None.
PairInit ==
    /\ \E max \in IntRange :
          /\ eIterator = CounterNew(max)
          /\ eIntoIter = CounterIntoIter(max)
    /\ eProfile \in {"debug", "release"}
    /\ eIteratorYielded = <<>>
    /\ eIntoIterYielded = <<>>
    /\ eIteratorLast = NotPulled
    /\ eIntoIterLast = NotPulled

\* The loop over Iterator_for_Counter::Counter pulls once.
PairPullIterator ==
    /\ eIteratorLast # None
    /\ LET r == CounterNext(eIterator, eProfile) IN
        /\ eIterator' = r.self
        /\ eIteratorLast' = r.ret
        /\ eIteratorYielded' =
              IF IsSome(r.ret) THEN Append(eIteratorYielded, r.ret.val)
              ELSE eIteratorYielded
    /\ UNCHANGED <<eIntoIter, eProfile, eIntoIterYielded, eIntoIterLast>>
    /\ UNCHANGED NotPair

\* The loop over IntoIterator_for_Counter::IntoIterX pulls once.
PairPullIntoIter ==
    /\ eIntoIterLast # None
    /\ LET r == CounterNext(eIntoIter, eProfile) IN
        /\ eIntoIter' = r.self
        /\ eIntoIterLast' = r.ret
        /\ eIntoIterYielded' =
              IF IsSome(r.ret) THEN Append(eIntoIterYielded, r.ret.val)
              ELSE eIntoIterYielded
    /\ UNCHANGED <<eIterator, eProfile, eIteratorYielded, eIteratorLast>>
    /\ UNCHANGED NotPair

\* ====================================================================
\* Mini project: valid_moves_for_worm
\* ====================================================================
MapCols == 2
MapRows == 2

MapCells == {"Air", "Dirt"}

\* Point2d { x, y }
Point2d(x, y) == [x |-> x, y |-> y]

\* Action::Move / Action::Dig
Move(target) == [tag |-> "Move", target |-> target]
Dig(target) == [tag |-> "Dig", target |-> target]

\* Direction::ALL
DirectionALL ==
    <<"North", "South", "East", "West",
      "NorthEast", "NorthWest", "SouthEast", "SouthWest">>

\* Direction::as_vec
AsVec(dir) ==
    CASE dir = "North" -> Point2d(0, -1)
      [] dir = "South" -> Point2d(0, 1)
      [] dir = "East" -> Point2d(1, 0)
      [] dir = "West" -> Point2d(-1, 0)
      [] dir = "NorthEast" -> Point2d(1, -1)
      [] dir = "NorthWest" -> Point2d(-1, -1)
      [] dir = "SouthEast" -> Point2d(1, 1)
      [] dir = "SouthWest" -> Point2d(-1, 1)

\* What the caller of valid_moves_for_worm receives.
Returned(v) == [tag |-> "Returned", val |-> v]

\* <Point2d as Add>::add: each i32 sum panics on overflow when the build
\* checks it and wraps when it does not.
Point2dAdd(self, rhs, profile) ==
    IF /\ profile = "debug"
       /\ \/ self.x + rhs.x \notin IntRange
          \/ self.y + rhs.y \notin IntRange
    THEN Panic
    ELSE Point2d(WrappingAdd(self.x, rhs.x), WrappingAdd(self.y, rhs.y))

\* Map::at; cells[x][y] of the source is cells[x + 1][y + 1] here.
MapAt(self, target) ==
    IF target.x < 0 \/ target.y < 0
    THEN None
    ELSE IF target.x >= Len(self.cells)
         THEN None
         ELSE IF target.y >= Len(self.cells[target.x + 1])
              THEN None
              ELSE Some(self.cells[target.x + 1][target.y + 1])

\* The coordinates a worm is placed at: around and inside the map, and at
\* the two ends of i32.
WormCoords == {IntMin, IntMax} \cup (-1..MapCols)

\* The cells other worms may occupy.
OccupiedPool == {Point2d(0, 0), Point2d(1, 1)}

WormInit ==
    /\ \E cells \in SeqsUpTo(SeqsUpTo(MapCells, MapRows), MapCols) :
          wMap = [cells |-> cells]
    /\ \E x \in WormCoords, y \in WormCoords :
          worm = [position |-> Point2d(x, y)]
    /\ occupied_cells \in SUBSET OccupiedPool
    /\ wProfile \in {"debug", "release"}
    /\ valid_moves = <<>>
    /\ wDir = 1
    /\ wRet = Unset
    /\ wPc = "loop"

\* One iteration of `for dir in &Direction::ALL`.
WormLoopStep ==
    /\ wPc = "loop"
    /\ wDir <= Len(DirectionALL)
    /\ LET target == Point2dAdd(worm.position, AsVec(DirectionALL[wDir]),
                                wProfile)
       IN IF target = Panic
          THEN /\ wRet' = Panic
               /\ wPc' = "panicked"
               /\ UNCHANGED <<valid_moves, wDir>>
          ELSE /\ wDir' = wDir + 1
               /\ UNCHANGED <<wRet, wPc>>
               /\ IF target \notin occupied_cells
                  THEN LET cell == MapAt(wMap, target) IN
                       IF cell = Some("Air")
                       THEN valid_moves' = Append(valid_moves, Move(target))
                       ELSE IF cell = Some("Dirt")
                            THEN valid_moves' = Append(valid_moves, Dig(target))
                            ELSE UNCHANGED valid_moves
                  ELSE UNCHANGED valid_moves
    /\ UNCHANGED <<wMap, worm, occupied_cells, wProfile>>
    /\ UNCHANGED NotWorm

\* The loop is over: `valid_moves` is returned.
WormReturn ==
    /\ wPc = "loop"
    /\ wDir > Len(DirectionALL)
    /\ wRet' = Returned(valid_moves)
    /\ wPc' = "done"
    /\ UNCHANGED <<wMap, worm, occupied_cells, wProfile, valid_moves, wDir>>
    /\ UNCHANGED NotWorm

\* ====================================================================
\* The specifications: one per exercise
\* ====================================================================
IdleU == uVs = Idle /\ unique = Idle /\ uResult = Idle /\ uLast = Idle
         /\ uInner = Idle /\ uExtra = Idle
IdleM == mVs = Idle /\ map = Idle /\ mResult = Idle /\ mLast = Idle /\ mExtra = Idle
IdleF == fVs = Idle /\ flatten = Idle /\ fResult = Idle /\ fLast = Idle
         /\ fExtra = Idle
IdleA == aSrc = Idle /\ aN = Idle /\ aIter = Idle /\ aVec = Idle /\ aRes = Idle
         /\ aList = Idle /\ aPc = Idle
IdleL == lSrc = Idle /\ lRev = Idle /\ lIter = Idle /\ lPulled = Idle
         /\ lAcc = Idle /\ lList = Idle /\ lPc = Idle
IdleC == cSrc = Idle /\ cVia = Idle /\ cIter = Idle /\ my_collection = Idle
         /\ cPc = Idle
IdleK == counter = Idle /\ kProfile = Idle /\ kLast = Idle /\ kYielded = Idle
IdleR == ages = Idle /\ rOrig = Idle /\ iterator = Idle /\ rReturns = Idle
IdleG == gSrc = Idle /\ gSeed = Idle /\ gComb = Idle /\ gIter = Idle /\ sum = Idle
         /\ gAccum = Idle /\ gPulled = Idle /\ sum_with_fold = Idle /\ gPc = Idle
IdleY ==
    /\ ySrc = Idle
    /\ yOp = Idle
    /\ yThreshold = Idle
    /\ yIter = Idle
    /\ yPulled = Idle
    /\ yResult = Idle
    /\ yPc = Idle
IdleQ ==
    /\ qSrc = Idle
    /\ qThreshold = Idle
    /\ qIter = Idle
    /\ found = Idle
    /\ qLoopPulled = Idle
    /\ found_with_find = Idle
    /\ qPulled = Idle
    /\ qPc = Idle
IdleD == dVs = Idle /\ dKind = Idle /\ dRuns = Idle
IdleP ==
    /\ generator = Idle
    /\ pProfile = Idle
    /\ password = Idle
    /\ pLast = Idle
    /\ pPc = Idle
IdleE ==
    /\ eIterator = Idle
    /\ eIntoIter = Idle
    /\ eProfile = Idle
    /\ eIteratorYielded = Idle
    /\ eIntoIterYielded = Idle
    /\ eIteratorLast = Idle
    /\ eIntoIterLast = Idle
IdleW ==
    /\ wMap = Idle
    /\ worm = Idle
    /\ occupied_cells = Idle
    /\ wProfile = Idle
    /\ valid_moves = Idle
    /\ wDir = Idle
    /\ wRet = Idle
    /\ wPc = Idle

InitUnique ==
    /\ UniqueInit
    /\ IdleM /\ IdleF /\ IdleA /\ IdleL /\ IdleC /\ IdleK /\ IdleR /\ IdleG /\ IdleY /\ IdleQ /\ IdleD /\ IdleP /\ IdleE /\ IdleW
NextUnique == UniquePull
SpecUnique == InitUnique /\ [][NextUnique]_vars

InitMap ==
    /\ MapInit
    /\ IdleU /\ IdleF /\ IdleA /\ IdleL /\ IdleC /\ IdleK /\ IdleR /\ IdleG /\ IdleY /\ IdleQ /\ IdleD /\ IdleP /\ IdleE /\ IdleW
NextMap == MapPull
SpecMap == InitMap /\ [][NextMap]_vars

InitFlatten ==
    /\ FlattenInit
    /\ IdleU /\ IdleM /\ IdleA /\ IdleL /\ IdleC /\ IdleK /\ IdleR /\ IdleG /\ IdleY /\ IdleQ /\ IdleD /\ IdleP /\ IdleE /\ IdleW
NextFlatten == FlattenPull
SpecFlatten == InitFlatten /\ [][NextFlatten]_vars

InitArray ==
    /\ ArrayInit
    /\ IdleU /\ IdleM /\ IdleF /\ IdleL /\ IdleC /\ IdleK /\ IdleR /\ IdleG /\ IdleY /\ IdleQ /\ IdleD /\ IdleP /\ IdleE /\ IdleW
NextArray == ArrayCollectStep \/ ArrayTryInto \/ ArrayUnwrap
SpecArray == InitArray /\ [][NextArray]_vars

InitList ==
    /\ ListInit
    /\ IdleU /\ IdleM /\ IdleF /\ IdleA /\ IdleC /\ IdleK /\ IdleR /\ IdleG /\ IdleY /\ IdleQ /\ IdleD /\ IdleP /\ IdleE /\ IdleW
NextList == ListFoldStep
SpecList == InitList /\ [][NextList]_vars

InitCollection ==
    /\ CollectionInit
    /\ IdleU /\ IdleM /\ IdleF /\ IdleA /\ IdleL /\ IdleK /\ IdleR /\ IdleG /\ IdleY /\ IdleQ /\ IdleD /\ IdleP /\ IdleE /\ IdleW
NextCollection == CollectionCall \/ CollectionNew \/ CollectionLoopStep
SpecCollection == InitCollection /\ [][NextCollection]_vars

InitCounter ==
    /\ CounterInit
    /\ IdleU /\ IdleM /\ IdleF /\ IdleA /\ IdleL /\ IdleC /\ IdleR /\ IdleG /\ IdleY /\ IdleQ /\ IdleD /\ IdleP /\ IdleE /\ IdleW
NextCounter == CounterPull
SpecCounter == InitCounter /\ [][NextCounter]_vars

InitCursor ==
    /\ CursorInit
    /\ IdleU /\ IdleM /\ IdleF /\ IdleA /\ IdleL /\ IdleC /\ IdleK /\ IdleG /\ IdleY /\ IdleQ /\ IdleD /\ IdleP /\ IdleE /\ IdleW
NextCursor == CursorPull
SpecCursor == InitCursor /\ [][NextCursor]_vars

InitFold ==
    /\ FoldInit
    /\ IdleU /\ IdleM /\ IdleF /\ IdleA /\ IdleL /\ IdleC /\ IdleK /\ IdleR /\ IdleY /\ IdleQ /\ IdleD /\ IdleP /\ IdleE /\ IdleW
NextFold == FoldLoopStep \/ FoldStep
SpecFold == InitFold /\ [][NextFold]_vars

InitAnyAll ==
    /\ AnyAllInit
    /\ IdleU /\ IdleM /\ IdleF /\ IdleA /\ IdleL /\ IdleC /\ IdleK /\ IdleR /\ IdleG /\ IdleQ /\ IdleD /\ IdleP /\ IdleE /\ IdleW
NextAnyAll == AnyAllStep
SpecAnyAll == InitAnyAll /\ [][NextAnyAll]_vars

InitFind ==
    /\ FindInit
    /\ IdleU /\ IdleM /\ IdleF /\ IdleA /\ IdleL /\ IdleC /\ IdleK /\ IdleR /\ IdleG /\ IdleY /\ IdleD /\ IdleP /\ IdleE /\ IdleW
NextFind == FindLoopStep \/ FindStep
SpecFind == InitFind /\ [][NextFind]_vars

InitRuns ==
    /\ RunsInit
    /\ IdleU /\ IdleM /\ IdleF /\ IdleA /\ IdleL /\ IdleC /\ IdleK /\ IdleR /\ IdleG /\ IdleY /\ IdleQ /\ IdleP /\ IdleE /\ IdleW
NextRuns == RunFirst \/ RunSecond
SpecRuns == InitRuns /\ [][NextRuns]_vars

InitPassword ==
    /\ PasswordInit
    /\ IdleU /\ IdleM /\ IdleF /\ IdleA /\ IdleL /\ IdleC /\ IdleK /\ IdleR /\ IdleG /\ IdleY /\ IdleQ /\ IdleD /\ IdleE /\ IdleW
NextPassword == PasswordCall \/ PasswordPush \/ PasswordReturn
SpecPassword == InitPassword /\ [][NextPassword]_vars

InitPair ==
    /\ PairInit
    /\ IdleU /\ IdleM /\ IdleF /\ IdleA /\ IdleL /\ IdleC /\ IdleK /\ IdleR /\ IdleG /\ IdleY /\ IdleQ /\ IdleD /\ IdleP /\ IdleW
NextPair == PairPullIterator \/ PairPullIntoIter
SpecPair == InitPair /\ [][NextPair]_vars

InitWorm ==
    /\ WormInit
    /\ IdleU /\ IdleM /\ IdleF /\ IdleA /\ IdleL /\ IdleC /\ IdleK /\ IdleR /\ IdleG /\ IdleY /\ IdleQ /\ IdleD /\ IdleP /\ IdleE
NextWorm == WormLoopStep \/ WormReturn
SpecWorm == InitWorm /\ [][NextWorm]_vars

\* ====================================================================
\* Properties
\* ====================================================================
\* The set of elements of a sequence.
Elems(s) == {s[i] : i \in 1..Len(s)}

\* The index at which v first appears in s.
FirstIndex(s, v) == CHOOSE i \in 1..Len(s) : s[i] = v /\ \A j \in 1..(i - 1) : s[j] # v

\* The concatenation of the sequences of ss, in order.
RECURSIVE Concat(_)
Concat(ss) == IF ss = <<>> THEN <<>> ELSE Head(ss) \o Concat(Tail(ss))

\* s is an initial part of t.
IsPrefix(s, t) == Len(s) <= Len(t) /\ s = SubSeq(t, 1, Len(s))

\* C1: once the uniqueness adapter is drained, what it returned holds each
\* distinct value of the input exactly once, in the order of first
\* appearance in the input, and is no longer than the input.
C1_UniqueFirstOccurrences ==
    uLast = None =>
        /\ Len(uResult) <= Len(uVs)
        /\ Elems(uResult) = Elems(uVs)
        /\ \A i, j \in 1..Len(uResult) : i # j => uResult[i] # uResult[j]
        /\ \A i, j \in 1..Len(uResult) :
              i < j => FirstIndex(uVs, uResult[i]) < FirstIndex(uVs, uResult[j])

\* C1 witness: [a, b, a, c] has been drained to [a, b, c].
C1_Witness ==
    uLast = None /\ uVs = <<1, 2, 1, 3>> /\ uResult = <<1, 2, 3>>

\* What the closure of the given kind returns for the i-th element v.
Expected(kind, v, i) == IF kind = "double" THEN v + v ELSE <<v, i>>

\* C2: the mapping adapter returns, for the i-th pull, f of the i-th source
\* element; it reports exhaustion only after len(S) results and never
\* returns more than len(S).
C2_MapYieldsFOfEach ==
    /\ Len(mResult) <= Len(mVs)
    /\ \A i \in 1..Len(mResult) : mResult[i] = Expected(map.f.kind, mVs[i], i)
    /\ IsSome(mLast) => mLast.val = mResult[Len(mResult)]
    /\ mLast = None => Len(mResult) = Len(mVs)

\* C2 witness: [1, 2, 3, 2] mapped by x * 2 has been drained to [2, 4, 6, 4].
C2_Witness ==
    /\ mLast = None /\ map.f.kind = "double"
    /\ mVs = <<1, 2, 3, 2>> /\ mResult = <<2, 4, 6, 4>>

\* C3: at construction and after any pulls, the transformation has been
\* invoked once per element produced so far, on the source elements in pull
\* order; a pull that reports exhaustion invokes nothing, so the counter the
\* closure increments equals the number of elements produced.
C3_TransformOncePerElement ==
    /\ map.f.calls = SubSeq(mVs, 1, Len(mResult))
    /\ map.f.kind = "count" => map.f.c = Len(mResult)

\* C3 witness: three elements produced by the counting closure, then
\* exhaustion reported more than once.
C3_Witness ==
    /\ map.f.kind = "count" /\ map.f.c = 3 /\ Len(mVs) = 3
    /\ mLast = None /\ mExtra >= 1

\* C4: what the flattening adapter has returned is always an initial part
\* of the concatenation of the inner sequences, and once it reports
\* exhaustion it is the whole concatenation: an empty inner sequence adds
\* nothing and does not end the iteration early.
C4_FlattenIsConcat ==
    /\ IsPrefix(fResult, Concat(fVs))
    /\ fLast = None => fResult = Concat(fVs)

\* C4 witness: [[1, 2], [], [2, 1]] has been drained to [1, 2, 2, 1].
C4_Witness ==
    /\ fLast = None /\ fVs = <<<<1, 2>>, <<>>, <<2, 1>>>>
    /\ fResult = <<1, 2, 2, 1>>

\* s without its last element, and s back to front.
Front(s) == SubSeq(s, 1, Len(s) - 1)
Reverse(s) == [i \in 1..Len(s) |-> s[Len(s) + 1 - i]]

\* The source elements doubled, in source order.
Doubled(s) == [i \in 1..Len(s) |-> s[i] + s[i]]

\* C5: the conversion is Ok exactly when the sequence produced exactly N
\* elements; the test ends with the array holding the produced elements in
\* pull order in that case, and with a panic and no array in every other:
\* never a truncated or padded array.
C5_ArrayExactlyN ==
    /\ aRes # Unset => (aRes.tag = "Ok" <=> Len(aSrc) = aN)
    /\ aRes # Unset /\ aRes.tag = "Ok" => aRes.val = Doubled(aSrc)
    /\ aPc = "done" => Len(aSrc) = aN /\ aList = Doubled(aSrc)
    /\ aPc = "panicked" => Len(aSrc) # aN /\ aList = Unset

\* C5 witness: [1, 2, 3] doubled into a 2-element array has failed.
C5_Witness ==
    aPc = "panicked" /\ aSrc = <<1, 2, 3>> /\ aN = 2 /\ aVec = <<2, 4, 6>>

\* Cons(en, Cons(..., Cons(e1, Nil))) for the sequence e1..en.
RECURSIVE ConsOfReversed(_)
ConsOfReversed(s) ==
    IF s = <<>> THEN Nil ELSE Cons(s[Len(s)], ConsOfReversed(Front(s)))

\* The elements of a List, head to tail.
RECURSIVE ListToSeq(_)
ListToSeq(l) == IF l = Nil THEN <<>> ELSE <<l[2]>> \o ListToSeq(l[3])

\* C6: List::from_iter over the pulled elements e1..en gives
\* Cons(en, Cons(..., Cons(e1, Nil))): read head to tail, the reverse of the
\* pull order; nothing pulled gives Nil.
C6_ListIsReversedPullOrder ==
    lPc = "done" =>
        /\ lPulled = IF lRev THEN Reverse(Doubled(lSrc)) ELSE Doubled(lSrc)
        /\ lList = ConsOfReversed(lPulled)
        /\ ListToSeq(lList) = Reverse(lPulled)
        /\ lPulled = <<>> => lList = Nil

\* C6 witness: the test's chain over [1, 2, 3] pulls 6, 4, 2 and builds
\* Cons(2, Cons(4, Cons(6, Nil))).
C6_Witness ==
    /\ lPc = "done" /\ lRev /\ lSrc = <<1, 2, 3>> /\ lPulled = <<6, 4, 2>>
    /\ lList = Cons(2, Cons(4, Cons(6, Nil)))

\* The elements of the range start..end, in order.
RangeSeq(r) ==
    [i \in 1..(IF r.end > r.start THEN r.end - r.start ELSE 0) |-> r.start + i - 1]

\* C7: the collection does not exist before from_iter creates it; in the
\* loop it holds exactly the elements pulled so far, in pull order (none at
\* first); at the end it holds the whole range, whether the test called
\* from_iter or collect.
C7_CollectionHoldsPulled ==
    /\ cPc \in {"call", "new"} => my_collection = Unset
    /\ cPc = "loop" =>
          /\ IsPrefix(my_collection, RangeSeq(cSrc))
          /\ Len(my_collection) = cIter.start - cSrc.start
    /\ cPc = "done" => my_collection = RangeSeq(cSrc)

\* C7 witness: 0..5 has been collected into [0, 1, 2, 3, 4].
C7_Witness ==
    /\ cPc = "done" /\ cVia = "collect" /\ cSrc = [start |-> 0, end |-> 5]
    /\ my_collection = <<0, 1, 2, 3, 4>>

\* C8: once next() has returned None, no later next() yields an element
\* again (a next() that panics returns nothing).
C8_ExhaustionPermanent == [][kLast = None => ~IsSome(kLast')]_vars

\* C9: the k-th pull returned the k-th element of the array for k up to its
\* length n, every pull from n + 1 on returned None, and the array holds
\* what it held when the test began.
C9_CursorYieldsInOrder ==
    /\ \A k \in 1..Len(rReturns) :
          rReturns[k] = IF k <= Len(rOrig) THEN Some(rOrig[k]) ELSE None
    /\ ages = rOrig

\* C9 witness: the cursor over a 3-element array has returned its three
\* elements and then None.
C9_Witness ==
    /\ iterator.via = "into_iter" /\ ages = <<3, 1, 2>>
    /\ rReturns = <<Some(3), Some(1), Some(2), None>>

\* c(...c(c(s0, e1), e2)..., en)
RECURSIVE FoldLeft(_, _, _)
FoldLeft(c, s0, s) ==
    IF s = <<>> THEN s0
    ELSE Combine(c, FoldLeft(c, s0, Front(s)), s[Len(s)])

\* C10: fold's accumulator is the left fold of the elements pulled so far;
\* its result is the left fold of the whole sequence from the seed, every
\* element pulled once, equal to what the accumulator-variable loop
\* computed, and the seed itself for the empty sequence.
C10_FoldIsLeftFold ==
    /\ gPc = "fold" => gAccum = FoldLeft(gComb, gSeed, SubSeq(gSrc, 1, gPulled))
    /\ gPc = "done" =>
          /\ sum_with_fold = FoldLeft(gComb, gSeed, gSrc)
          /\ sum_with_fold = sum
          /\ gPulled = Len(gSrc)
          /\ gSrc = <<>> => sum_with_fold = gSeed

\* C10 witness: ((1 - 1) - 2) - 3 = -5.
C10_Witness ==
    /\ gPc = "done" /\ gComb = "sub" /\ gSeed = 1 /\ gSrc = <<1, 2, 3>>
    /\ sum_with_fold = -5

\* The index of the first element of s on which the predicate gives `want`,
\* or 0 when there is none.
FirstSat(s, threshold, want) ==
    IF \E i \in 1..Len(s) : Pred(threshold, s[i]) = want
    THEN CHOOSE i \in 1..Len(s) :
            /\ Pred(threshold, s[i]) = want
            /\ \A j \in 1..(i - 1) : Pred(threshold, s[j]) # want
    ELSE 0

\* C11: any pulls the elements up to and including the first that satisfies
\* the predicate and returns true, all those up to and including the first
\* that violates it and returns false; nothing after that element is pulled;
\* with no such element (so on an empty sequence) everything is pulled and
\* any returns false, all returns true.
C11_AnyAllShortCircuit ==
    /\ yIter.front = Len(yPulled) + 1
    /\ yPc = "done" =>
          LET k == FirstSat(ySrc, yThreshold, yOp = "any") IN
          /\ yPulled = SubSeq(ySrc, 1, IF k = 0 THEN Len(ySrc) ELSE k)
          /\ yResult = IF yOp = "any" THEN k # 0 ELSE k = 0
          /\ ySrc = <<>> => yResult = (yOp = "all")

\* C11 witness: any(> 2) over [1, 3, 2, 3] has returned true after pulling
\* 1 and 3 only.
C11_Witness ==
    /\ yPc = "done" /\ yOp = "any" /\ yThreshold = 2 /\ ySrc = <<1, 3, 2, 3>>
    /\ yPulled = <<1, 3>> /\ yResult = TRUE

\* C12: find returns the first element in pull order that satisfies the
\* predicate, or None when no element does; it pulls the elements up to and
\* including that one and none after it; the loop that records the first
\* matching item and breaks visits the same items and ends with the same
\* value.
C12_FindFirstMatch ==
    /\ qPc = "find" => \A i \in 1..Len(qPulled) : ~Pred(qThreshold, qPulled[i])
    /\ qPc = "done" =>
          LET k == FirstSat(qSrc, qThreshold, TRUE) IN
          /\ found_with_find = IF k = 0 THEN None ELSE Some(qSrc[k])
          /\ qPulled = SubSeq(qSrc, 1, IF k = 0 THEN Len(qSrc) ELSE k)
          /\ qIter.front = Len(qPulled) + 1
          /\ found_with_find = found
          /\ qLoopPulled = qPulled

\* C12 witness: find(> 1) over [1, 2, 1, 3] has returned 2 after pulling 1
\* and 2 only.
C12_Witness ==
    /\ qPc = "done" /\ qThreshold = 1 /\ qSrc = <<1, 2, 1, 3>>
    /\ found_with_find = Some(2) /\ qPulled = <<1, 2>>


\* C13: two runs that build the chain fmap(f).unique() over the same source
\* agree, pull for pull, on what next() returns: the same values in the same
\* order and None at the same pull, whatever order each run's seen-set keeps
\* its elements in.
C13_RunsAgree ==
    \A k \in 1..Len(dRuns[2].returns) :
        /\ k <= Len(dRuns[1].returns)
        /\ dRuns[1].returns[k] = dRuns[2].returns[k]

\* Both runs are exhausted after the same pulls although their seen-sets
\* hold the elements in different orders.
C13_Witness ==
    /\ dRuns # Idle
    /\ dVs = <<1, 2, 1, 3>>
    /\ dKind = "double"
    /\ dRuns[1].unique.seen = <<2, 4, 6>>
    /\ dRuns[2].unique.seen = <<6, 4, 2>>
    /\ dRuns[1].returns = <<Some(2), Some(4), Some(6), None>>
    /\ dRuns[2].returns = dRuns[1].returns


\* C14: both password generators are infinite sources: next() never
\* returns None, the byte addition b'a' + offset never overflows, and every
\* password returned has exactly `length` characters, each in 'a'..='z'.
C14_PasswordWellFormed ==
    /\ pLast # None
    /\ pLast # Panic
    /\ \A i \in 1..Len(password) : password[i] \in ByteA..ByteZ
    /\ pPc = "returned" =>
          /\ IsSome(pLast)
          /\ Len(pLast.val) = generator.length
          /\ \A i \in 1..Len(pLast.val) : pLast.val[i] \in ByteA..ByteZ

\* next() has returned "za" from the IntoIterator variant.
C14_Witness ==
    /\ pPc = "returned"
    /\ generator = PasswordGeneratorIntoIter(2)
    /\ pLast = Some(<<ByteZ, ByteA>>)


\* C15: the seen-set of the uniqueness adapter is empty at construction, is
\* at every moment the set of the elements returned so far, and never loses
\* an element: a pull that returns v adds exactly v, which was not in it,
\* and a pull that reports exhaustion leaves it as it was.
C15_SeenIsReturned ==
    /\ [](/\ unique.seen = Elems(uResult)
          /\ uLast = NotPulled => unique.seen = {})
    /\ [][/\ unique.seen \subseteq unique'.seen
          /\ IsSome(uLast') => /\ uLast'.val \notin unique.seen
                               /\ unique'.seen = unique.seen \cup {uLast'.val}
          /\ uLast' = None => unique'.seen = unique.seen]_vars

\* After duplicates were discarded and exhaustion reported, the seen-set
\* holds the two values returned.
C15_Witness ==
    /\ uVs = <<2, 2, 1, 2>>
    /\ uLast = None
    /\ uResult = <<2, 1>>
    /\ unique.seen = {1, 2}


\* C16: one pull on the uniqueness adapter over a finite inner sequence
\* returns after at most (remaining inner elements + 1) calls of the inner
\* next(): it discards elements already seen until it reaches an unseen one,
\* which it returns, or the inner sequence is exhausted, and then it returns
\* None, having consumed all that remained plus the one exhaustion pull.
C16_PullBounded ==
    [][LET pos == unique.orig.pos
           remaining == Len(uVs) - pos + 1
       IN /\ uInner' \in 1..(remaining + 1)
          /\ uLast' = None <=>
                \A j \in pos..Len(uVs) : uVs[j] \in unique.seen
          /\ uLast' = None =>
                /\ uInner' = remaining + 1
                /\ unique'.orig.pos = Len(uVs) + 1
          /\ IsSome(uLast') =>
                /\ uInner' <= remaining
                /\ uLast'.val = uVs[pos + uInner' - 1]
                /\ uLast'.val \notin unique.seen
                /\ \A j \in pos..(pos + uInner' - 2) : uVs[j] \in unique.seen
                /\ unique'.orig.pos = pos + uInner'
      ]_vars

\* A pull has discarded two duplicates and returned the fourth element.
C16_Witness ==
    /\ uVs = <<1, 1, 1, 2>>
    /\ uLast = Some(2)
    /\ uInner = 3
    /\ unique.orig.pos = 5


\* C17: built from the same max and iterated to exhaustion, the Iterator
\* Counter and the IntoIterator Counter have yielded the same values in the
\* same order.
C17_CountersInterchangeable ==
    (eIteratorLast = None /\ eIntoIterLast = None) =>
        eIteratorYielded = eIntoIterYielded


\* The target of direction dir from position p, as points of the plane.
Neighbour(p, dir) == Point2d(p.x + AsVec(dir).x, p.y + AsVec(dir).y)

\* Point t is a cell of the grid.
InsideMap(m, t) ==
    /\ t.x >= 0
    /\ t.y >= 0
    /\ t.x < Len(m.cells)
    /\ t.y < Len(m.cells[t.x + 1])

\* The actions for the first n directions of Direction::ALL: one for each
\* target that is free and inside the map, Move on Air and Dig on Dirt.
RECURSIVE ActionsFor(_, _, _, _)
ActionsFor(m, p, occ, n) ==
    IF n = 0 THEN <<>>
    ELSE LET t == Neighbour(p, DirectionALL[n])
             before == ActionsFor(m, p, occ, n - 1)
         IN IF t \notin occ /\ InsideMap(m, t)
            THEN IF m.cells[t.x + 1][t.y + 1] = "Air"
                 THEN Append(before, Move(t))
                 ELSE Append(before, Dig(t))
            ELSE before

\* C18: for every map, worm position and occupied set, valid_moves_for_worm
\* returns, in Direction::ALL order, exactly one action for each of the 8
\* neighbouring targets that is not occupied and lies inside the map, Move
\* on Air and Dig on Dirt, and nothing for the other targets.
C18_ValidMoves ==
    /\ wPc = "loop" =>
          valid_moves = ActionsFor(wMap, worm.position, occupied_cells, wDir - 1)
    /\ wPc # "loop" =>
          wRet = Returned(ActionsFor(wMap, worm.position, occupied_cells,
                                     Len(DirectionALL)))

==========================================================================
